---- MODULE Spec2Model ----
(***************************************************************************)
(* Model of the regular-expression front end of rs-regex:                  *)
(*   src/engine/parser.rs  parse, parse_escape, parse_plus_star_question,  *)
(*                         fold_or                                         *)
(*   src/helper.rs         SafeAdd::safe_add (checked_add), safe_add       *)
(*                                                                         *)
(* parse is modelled as the state machine of its `for (i, c) in            *)
(* expr.chars().enumerate()` loop: the characters are handed to the loop    *)
(* one at a time, `expr` is the part of the pattern read so far, and Finish *)
(* is the code after the loop (the iterator returned None).                 *)
(***************************************************************************)
EXTENDS Integers, Sequences, FiniteSets, TLC

VARIABLES expr, seq, seq_or, stack, state, pc, result, dst, src, f, ret

vars == <<expr, seq, seq_or, stack, state, pc, result, dst, src, f, ret>>

parserVars == <<expr, seq, seq_or, stack, state, pc, result>>

addVars == <<dst, src, f, ret>>

(* ------------------------------ bounds --------------------------------- *)

\* longest pattern handed to parse
MaxLen == 5

\* width in bits of the modelled usize
W == 3

MaxUsize == (2 ^ W) - 1

(* ----------------------------- characters ------------------------------ *)

MetaChars == {"\\", "(", ")", "|", "+", "*", "?"}

Quantifiers == {"+", "*", "?"}

Letters == {"a", "b", "x"}

Alphabet == MetaChars \cup Letters

(* -------------------------------- AST ---------------------------------- *)
\* every node is [tag, c, kids]; c is "" except on Char, kids is <<>> on Char

Char(c) == [tag |-> "Char", c |-> c, kids |-> <<>>]

Plus(inner) == [tag |-> "Plus", c |-> "", kids |-> <<inner>>]

Star(inner) == [tag |-> "Star", c |-> "", kids |-> <<inner>>]

Question(inner) == [tag |-> "Question", c |-> "", kids |-> <<inner>>]

Or(left, right) == [tag |-> "Or", c |-> "", kids |-> <<left, right>>]

AstSeq(children) == [tag |-> "Seq", c |-> "", kids |-> children]

\* placeholder carried where the code has no AST (Err, None)
NoAST == [tag |-> "None", c |-> "", kids |-> <<>>]

(* ---------------------------- ParseError ------------------------------- *)

NoErr == [kind |-> "None", pos |-> -1, c |-> ""]

InvalidEscape(pos, c) == [kind |-> "InvalidEscape", pos |-> pos, c |-> c]

invalidRightParen(pos) == [kind |-> "invalidRightParen", pos |-> pos, c |-> ""]

NoPrev(pos) == [kind |-> "NoPrev", pos |-> pos, c |-> ""]

NoRightParen == [kind |-> "NoRightParen", pos |-> -1, c |-> ""]

Empty == [kind |-> "Empty", pos |-> -1, c |-> ""]

\* Result<AST, ParseError>
Ok(ast) == [status |-> "Ok", ast |-> ast, err |-> NoErr]

Err(e) == [status |-> "Err", ast |-> NoAST, err |-> e]

Pending == [status |-> "None", ast |-> NoAST, err |-> NoErr]

(* ------------------------------ helpers -------------------------------- *)

Last(s) == s[Len(s)]

Front(s) == SubSeq(s, 1, Len(s) - 1)

RECURSIVE Reverse(_)
Reverse(s) == IF s = <<>> THEN <<>> ELSE Append(Reverse(Tail(s)), Head(s))

(* ---------------------------- parse_escape ----------------------------- *)

\* mutant: every escaped character is accepted as a literal
parse_escape_any(pos, c) == Ok(Char(c))

parse_escape(pos, c) ==
    IF c \in {"\\", "(", ")", "|", "+", "*", "?"}
    THEN Ok(Char(c))
    ELSE Err(InvalidEscape(pos, c))

(* ----------------------- parse_plus_star_question ---------------------- *)

PSQ(ast_type, prev) ==
    CASE ast_type = "+" -> Plus(prev)
      [] ast_type = "*" -> Star(prev)
      [] ast_type = "?" -> Question(prev)

\* mutant: a quantifier on an empty sequence is dropped instead of failing
parse_plus_star_question_lenient(s, ast_type, pos) ==
    IF Len(s) > 0
    THEN [seq |-> Append(Front(s), PSQ(ast_type, Last(s))), err |-> NoErr]
    ELSE [seq |-> s, err |-> NoErr]

parse_plus_star_question(s, ast_type, pos) ==
    IF Len(s) > 0
    THEN [seq |-> Append(Front(s), PSQ(ast_type, Last(s))), err |-> NoErr]
    ELSE [seq |-> s, err |-> NoPrev(pos)]

(* ------------------------------- fold_or ------------------------------- *)

\* the `for s in seq_or` loop over the reversed remainder
RECURSIVE fold_loop(_, _)
fold_loop(rest, ast) ==
    IF rest = <<>> THEN ast
    ELSE fold_loop(Tail(rest), Or(Head(rest), ast))

\* Option<AST>: [some, ast]
fold_or(s_or) ==
    IF Len(s_or) > 1
    THEN [some |-> TRUE, ast |-> fold_loop(Reverse(Front(s_or)), Last(s_or))]
    ELSE IF Len(s_or) = 1
         THEN [some |-> TRUE, ast |-> Last(s_or)]
         ELSE [some |-> FALSE, ast |-> NoAST]

(* --------------------- the arms of the match in parse ------------------ *)
\* a context is [seq, seq_or, stack, state]; an arm returns the context
\* after the character together with the error it returned, if any

Ctx(s, s_or, st, ps) == [seq |-> s, seq_or |-> s_or, stack |-> st, state |-> ps]

Step(ctx, e) == [ctx |-> ctx, err |-> e]

\* '+' | '*' | '?'
ArmQuantifier(ctx, i, c) ==
    LET r == parse_plus_star_question(ctx.seq, c, i)
    IN  Step([ctx EXCEPT !.seq = r.seq], r.err)

\* mutant: '(' resets the context without saving it
ArmLParen_nosave(ctx, i, c) ==
    Step([ctx EXCEPT !.seq = <<>>, !.seq_or = <<>>], NoErr)

\* '(': `stack.push(prev, prev_or)` saves the pair (prev, prev_or), the
\* pair that the ')' arm pops
ArmLParen(ctx, i, c) ==
    LET prev    == ctx.seq
        prev_or == ctx.seq_or
    IN  Step([ctx EXCEPT !.seq = <<>>, !.seq_or = <<>>,
                         !.stack = Append(ctx.stack, [prev |-> prev, prev_or |-> prev_or])],
             NoErr)

\* the Some branch of `stack.pop()` in the ')' arm
CloseGroup(ctx) ==
    LET top   == Last(ctx.stack)
        s_or1 == IF ctx.seq # <<>> THEN Append(ctx.seq_or, AstSeq(ctx.seq)) ELSE ctx.seq_or
        fo    == fold_or(s_or1)
        prev1 == IF fo.some THEN Append(top.prev, fo.ast) ELSE top.prev
    IN  [ctx EXCEPT !.seq = prev1, !.seq_or = top.prev_or, !.stack = Front(ctx.stack)]

\* mutant: a ')' without an open group is skipped
ArmRParen_skip(ctx, i, c) ==
    IF ctx.stack # <<>>
    THEN Step(CloseGroup(ctx), NoErr)
    ELSE Step(ctx, NoErr)

\* mutant: the group's single alternative is spliced into the outer
\* sequence instead of being appended as one node
ArmRParen_splice(ctx, i, c) ==
    IF ctx.stack # <<>>
    THEN LET top == Last(ctx.stack)
         IN  IF ctx.seq_or = <<>>
             THEN Step([ctx EXCEPT !.seq = top.prev \o ctx.seq,
                                   !.seq_or = top.prev_or,
                                   !.stack = Front(ctx.stack)], NoErr)
             ELSE Step(CloseGroup(ctx), NoErr)
    ELSE Step(ctx, invalidRightParen(i))

\* ')'
ArmRParen(ctx, i, c) ==
    IF ctx.stack # <<>>
    THEN Step(CloseGroup(ctx), NoErr)
    ELSE Step(ctx, invalidRightParen(i))

\* '|': `prev = take(&mut seq)` empties seq and prev is not used again;
\* what is pushed onto seq_or is AST::Char(c), c being the '|' itself
ArmBar(ctx, i, c) ==
    IF ctx.seq = <<>>
    THEN Step(ctx, NoPrev(i))
    ELSE Step([ctx EXCEPT !.seq = <<>>, !.seq_or = Append(ctx.seq_or, Char(c))], NoErr)

\* '\\'
ArmBackslash(ctx, i, c) == Step([ctx EXCEPT !.state = "Escape"], NoErr)

\* _
ArmLiteral(ctx, i, c) == Step([ctx EXCEPT !.seq = Append(ctx.seq, Char(c))], NoErr)

\* ParseState::Escape
ArmEscape(ctx, i, c) ==
    LET r == parse_escape(i, c)
    IN  IF r.status = "Ok"
        THEN Step([ctx EXCEPT !.seq = Append(ctx.seq, r.ast), !.state = "Char"], NoErr)
        ELSE Step(ctx, r.err)

\* one iteration of the loop body
Body(ctx, i, c) ==
    IF ctx.state = "Char"
    THEN CASE c \in Quantifiers -> ArmQuantifier(ctx, i, c)
           [] c = "("           -> ArmLParen(ctx, i, c)
           [] c = ")"           -> ArmRParen(ctx, i, c)
           [] c = "|"           -> ArmBar(ctx, i, c)
           [] c = "\\"          -> ArmBackslash(ctx, i, c)
           [] OTHER             -> ArmLiteral(ctx, i, c)
    ELSE ArmEscape(ctx, i, c)

\* mutant: the final sequence is pushed even when it is empty
AfterLoop_pushempty(ctx) ==
    IF ctx.stack # <<>>
    THEN Err(NoRightParen)
    ELSE LET fo == fold_or(Append(ctx.seq_or, AstSeq(ctx.seq)))
         IN  IF fo.some THEN Ok(fo.ast) ELSE Err(Empty)

\* mutant: an escape left open at the end of the pattern is reported
AfterLoop_checkstate(ctx) ==
    IF ctx.state = "Escape"
    THEN Err(InvalidEscape(-1, ""))
    ELSE IF ctx.stack # <<>>
    THEN Err(NoRightParen)
    ELSE LET s_or1 == IF ctx.seq # <<>> THEN Append(ctx.seq_or, AstSeq(ctx.seq)) ELSE ctx.seq_or
             fo    == fold_or(s_or1)
         IN  IF fo.some THEN Ok(fo.ast) ELSE Err(Empty)

\* the code after the loop
AfterLoop(ctx) ==
    IF ctx.stack # <<>>
    THEN Err(NoRightParen)
    ELSE LET s_or1 == IF ctx.seq # <<>> THEN Append(ctx.seq_or, AstSeq(ctx.seq)) ELSE ctx.seq_or
             fo    == fold_or(s_or1)
         IN  IF fo.some THEN Ok(fo.ast) ELSE Err(Empty)

InitCtx == Ctx(<<>>, <<>>, <<>>, "Char")

\* parse as a function of the whole pattern
RECURSIVE parse_from(_, _, _)
parse_from(ctx, e, i) ==
    IF i >= Len(e) THEN AfterLoop(ctx)
    ELSE LET r == Body(ctx, i, e[i + 1])
         IN  IF r.err # NoErr THEN Err(r.err) ELSE parse_from(r.ctx, e, i + 1)

parse(e) == parse_from(InitCtx, e, 0)

(* ------------------------------ helper.rs ------------------------------ *)

CodeGenError == {"PCoverFlow", "FailStar", "FailOr", "FailQuestion"}

\* mutant: wrapping addition
checked_add_wrapping(a, n) == [some |-> TRUE, val |-> (a + n) % (2 ^ W)]

\* usize::checked_add
checked_add(a, n) ==
    IF a + n <= MaxUsize
    THEN [some |-> TRUE, val |-> a + n]
    ELSE [some |-> FALSE, val |-> 0]

\* safe_add(dst, src, f): the new *dst and the returned Result<(), E>
safe_add(d, s, fn) ==
    LET r == checked_add(d, s)
    IN  IF r.some
        THEN [dst |-> r.val, ret |-> "Ok"]
        ELSE [dst |-> d, ret |-> fn]

(* ------------------------------ state ---------------------------------- *)

CurCtx == Ctx(seq, seq_or, stack, state)

ParserInit ==
    /\ expr = <<>>
    /\ seq = <<>>
    /\ seq_or = <<>>
    /\ stack = <<>>
    /\ state = "Char"
    /\ pc = "scan"
    /\ result = Pending

AddIdle ==
    /\ dst = 0
    /\ src = 0
    /\ f = "PCoverFlow"
    /\ ret = "none"

Init == ParserInit /\ AddIdle

\* the loop takes character c at index Len(expr) and runs arm(ctx, i, c)
Take(c, r) ==
    /\ expr' = Append(expr, c)
    /\ seq' = r.ctx.seq
    /\ seq_or' = r.ctx.seq_or
    /\ stack' = r.ctx.stack
    /\ state' = r.ctx.state
    /\ IF r.err # NoErr
       THEN pc' = "abort" /\ result' = Err(r.err)
       ELSE pc' = "scan" /\ result' = result
    /\ UNCHANGED addVars

InLoop(ps) == pc = "scan" /\ state = ps /\ Len(expr) < MaxLen

ScanQuantifier ==
    \E c \in Quantifiers :
        InLoop("Char") /\ Take(c, ArmQuantifier(CurCtx, Len(expr), c))

ScanLParen == InLoop("Char") /\ Take("(", ArmLParen(CurCtx, Len(expr), "("))

ScanRParen == InLoop("Char") /\ Take(")", ArmRParen(CurCtx, Len(expr), ")"))

ScanBar == InLoop("Char") /\ Take("|", ArmBar(CurCtx, Len(expr), "|"))

ScanBackslash == InLoop("Char") /\ Take("\\", ArmBackslash(CurCtx, Len(expr), "\\"))

ScanLiteral ==
    \E c \in Alphabet \ MetaChars :
        InLoop("Char") /\ Take(c, ArmLiteral(CurCtx, Len(expr), c))

ScanEscape ==
    \E c \in Alphabet :
        InLoop("Escape") /\ Take(c, ArmEscape(CurCtx, Len(expr), c))

\* the iterator is exhausted: the pattern is expr
Finish ==
    /\ pc = "scan"
    /\ pc' = "done"
    /\ result' = AfterLoop(CurCtx)
    /\ UNCHANGED <<expr, seq, seq_or, stack, state>>
    /\ UNCHANGED addVars

Next ==
    \/ ScanQuantifier
    \/ ScanLParen
    \/ ScanRParen
    \/ ScanBar
    \/ ScanBackslash
    \/ ScanLiteral
    \/ ScanEscape
    \/ Finish

Spec == Init /\ [][Next]_vars

(* ------------------- safe_add on its own: SpecAdd ---------------------- *)

InitAdd ==
    /\ ParserInit
    /\ dst \in 0..MaxUsize
    /\ src \in 0..MaxUsize
    /\ f \in CodeGenError
    /\ ret = "none"

SafeAdd ==
    /\ ret = "none"
    /\ LET r == safe_add(dst, src, f)
       IN  dst' = r.dst /\ ret' = r.ret
    /\ UNCHANGED <<src, f>>
    /\ UNCHANGED parserVars

NextAdd == SafeAdd

SpecAdd == InitAdd /\ [][NextAdd]_vars

(* ----------------- reading the pattern text directly ------------------ *)

\* number of consecutive backslashes that end at position k of e (1-based)
RECURSIVE BackslashRun(_, _)
BackslashRun(e, k) ==
    IF k < 1 THEN 0
    ELSE IF e[k] = "\\" THEN 1 + BackslashRun(e, k - 1) ELSE 0

\* position k of e is the character of an escape sequence
IsEscaped(e, k) == BackslashRun(e, k - 1) % 2 = 1

\* number of unescaped occurrences of c in e
Unescaped(e, c) == Cardinality({k \in 1..Len(e) : e[k] = c /\ ~IsEscaped(e, k)})

\* e ends in a backslash that starts an escape with no character after it
EndsDangling(e) == BackslashRun(e, Len(e)) % 2 = 1

\* literal characters of e: escaped ones, and unescaped non-metacharacters
LiteralCount(e) ==
    Cardinality({k \in 1..Len(e) : IsEscaped(e, k) \/ e[k] \notin MetaChars})

RECURSIVE LeafCount(_)
RECURSIVE LeafCountAll(_)
LeafCount(ast) == IF ast.tag = "Char" THEN 1 ELSE LeafCountAll(ast.kids)
LeafCountAll(kids) ==
    IF kids = <<>> THEN 0 ELSE LeafCount(Head(kids)) + LeafCountAll(Tail(kids))

RECURSIVE NoEmptySeq(_)
NoEmptySeq(ast) ==
    /\ ast.tag = "Seq" => ast.kids # <<>>
    /\ \A k \in 1..Len(ast.kids) : NoEmptySeq(ast.kids[k])

\* the loop is about to read character c at index Len(expr)
Reads(c) == pc = "scan" /\ Len(expr') = Len(expr) + 1 /\ Last(expr') = c

(* ------------------------------- C1 ------------------------------------ *)

\* e is k >= 2 non-empty runs of letters separated by '|'
IsAlternation(e) ==
    /\ Len(e) >= 3
    /\ \A k \in 1..Len(e) : e[k] \in Letters \cup {"|"}
    /\ \E k \in 1..Len(e) : e[k] = "|"
    /\ e[1] # "|" /\ e[Len(e)] # "|"
    /\ \A k \in 1..(Len(e) - 1) : ~(e[k] = "|" /\ e[k + 1] = "|")

\* the alternatives of e, each as the list of its Char nodes
RECURSIVE Alternatives(_, _)
Alternatives(e, cur) ==
    IF e = <<>> THEN <<cur>>
    ELSE IF Head(e) = "|" THEN <<cur>> \o Alternatives(Tail(e), <<>>)
    ELSE Alternatives(Tail(e), Append(cur, Char(Head(e))))

RECURSIVE OrChain(_)
OrChain(alts) ==
    IF Len(alts) = 1 THEN AstSeq(Head(alts))
    ELSE Or(AstSeq(Head(alts)), OrChain(Tail(alts)))

\* C1: a pattern of k >= 2 non-empty literal alternatives separated by '|'
\* parses to the right-nested Or chain of the alternatives' Seq nodes, in
\* source order.
C1_AlternationOrChain ==
    (pc = "done" /\ IsAlternation(expr))
        => result = Ok(OrChain(Alternatives(expr, <<>>)))

(* ------------------------------- C2 ------------------------------------ *)

\* C2: a pattern that is scanned without error, with balanced parentheses
\* and a non-empty result, parses successfully to a tree with as many Char
\* leaves as the pattern has literal characters.
C2_LeafCount ==
    (pc = "done" /\ stack = <<>> /\ (seq # <<>> \/ seq_or # <<>>))
        => /\ result.status = "Ok"
           /\ LeafCount(result.ast) = LiteralCount(expr)

(* ------------------------------- C3 ------------------------------------ *)

\* C3: reading a quantifier or '|' at index i in literal state while the
\* current sequence is empty fails at once with NoPrev(i).
C3_NoPrev ==
    [][ \A c \in Quantifiers \cup {"|"} :
          (Reads(c) /\ state = "Char" /\ seq = <<>>)
              => (pc' = "abort" /\ result' = Err(NoPrev(Len(expr)))) ]_vars

\* "a|*" was read and failed with NoPrev(2)
C3_Witness ==
    /\ expr = <<"a", "|", "*">>
    /\ pc = "abort"
    /\ result = Err(NoPrev(2))

(* ------------------------------- C4 ------------------------------------ *)

\* C4: reading an unescaped ')' at index i while no group is open fails with
\* invalidRightParen(i) and no tree.
C4_UnmatchedRightParen ==
    [][ (Reads(")") /\ state = "Char" /\ stack = <<>>)
          => (pc' = "abort" /\ result' = Err(invalidRightParen(Len(expr)))) ]_vars

\* "abx)" was read and failed at position 3
C4_Witness ==
    /\ expr = <<"a", "b", "x", ")">>
    /\ pc = "abort"
    /\ result = Err(invalidRightParen(3))

(* ------------------------------- C5 ------------------------------------ *)

\* C5: while scanning, the depth of the context stack is the number of
\* unescaped '(' read minus the number of unescaped ')' read, never
\* negative; a scan that ends with depth > 0 fails with NoRightParen.
C5_StackDepth ==
    /\ pc = "scan" =>
         /\ Len(stack) = Unescaped(expr, "(") - Unescaped(expr, ")")
         /\ Unescaped(expr, "(") >= Unescaped(expr, ")")
    /\ (pc = "done" /\ Len(stack) > 0) => result = Err(NoRightParen)

\* "(ab" was parsed: one group still open, NoRightParen
C5_Witness ==
    /\ expr = <<"(", "a", "b">>
    /\ pc = "done"
    /\ Len(stack) = 1
    /\ result = Err(NoRightParen)

(* ------------------------------- C6 ------------------------------------ *)

\* C6: a scan that completes with balanced parentheses and nothing
\* accumulated fails with Empty, and no tree that parse returns has a Seq
\* node without children.
C6_NeverEmptyTree ==
    /\ (pc = "done" /\ stack = <<>> /\ seq = <<>> /\ seq_or = <<>>)
           => result = Err(Empty)
    /\ result.status = "Ok" => (result.ast # NoAST /\ NoEmptySeq(result.ast))

\* "()()" was parsed and failed with Empty
C6_Witness ==
    /\ expr = <<"(", ")", "(", ")">>
    /\ pc = "done"
    /\ result = Err(Empty)

(* ------------------------------- C7 ------------------------------------ *)

\* C7: in escape state the character c at index i is appended as Char(c)
\* with no operator effect when it is a metacharacter (state back to
\* literal), and otherwise parse fails with InvalidEscape(i, c); "\x" fails
\* with InvalidEscape(1, 'x') and "\(" yields the single leaf Char('(').
C7_Escape ==
    /\ [][ \A c \in Alphabet :
             (Reads(c) /\ state = "Escape")
                 => IF c \in MetaChars
                    THEN /\ seq' = Append(seq, Char(c))
                         /\ seq_or' = seq_or
                         /\ stack' = stack
                         /\ state' = "Char"
                         /\ pc' = "scan"
                    ELSE /\ pc' = "abort"
                         /\ result' = Err(InvalidEscape(Len(expr), c)) ]_vars
    /\ [](expr = <<"\\", "x">> => result = Err(InvalidEscape(1, "x")))
    /\ []((pc = "done" /\ expr = <<"\\", "(">>)
             => (result = Ok(AstSeq(<<Char("(")>>)) /\ LeafCount(result.ast) = 1))

\* "\(" was parsed to a tree whose only leaf is Char('(')
C7_Witness ==
    /\ expr = <<"\\", "(">>
    /\ pc = "done"
    /\ result = Ok(AstSeq(<<Char("(")>>))

(* ------------------------------- C8 ------------------------------------ *)

Wrapped(e) == <<"(">> \o e \o <<")">>

\* C8 as stated: wrapping a whole valid pattern in one pair of parentheses
\* does not change the tree that parse returns.
C8_GroupingSameTree ==
    (pc = "done" /\ result.status = "Ok") => parse(Wrapped(expr)) = result

\* C8 amended: for a pattern that parse accepts and that does not end in an
\* unfinished escape, the wrapped pattern parses to a Seq whose only child
\* is the tree of the pattern itself.
C8_GroupingAddsSeq ==
    (pc = "done" /\ result.status = "Ok" /\ ~EndsDangling(expr))
        => parse(Wrapped(expr)) = Ok(AstSeq(<<result.ast>>))

\* "a+x" was parsed; "(a+x)" parses to Seq[Seq[Plus(a), x]]
C8_Witness ==
    /\ expr = <<"a", "+", "x">>
    /\ pc = "done"
    /\ result = Ok(AstSeq(<<Plus(Char("a")), Char("x")>>))
    /\ parse(Wrapped(expr)) = Ok(AstSeq(<<result.ast>>))

(* ------------------------------- C9 ------------------------------------ *)

\* C9: safe_add never wraps: a sum that fits is stored in dst and Ok is
\* returned; a sum above the maximum returns the error of the supplied
\* producer and leaves dst unchanged, never (dst + src) mod 2^W.
C9_SafeAddNeverWraps ==
    [][ (ret = "none" /\ ret' # "none")
          => IF dst + src <= MaxUsize
             THEN dst' = dst + src /\ ret' = "Ok"
             ELSE /\ dst' = dst
                  /\ ret' = f
                  /\ dst' # (dst + src) % (2 ^ W) ]_vars

\* an overflowing call has returned the producer's error
C9_Witness ==
    /\ ret = f
    /\ dst + src > MaxUsize
    /\ src > 0

(* ------------------------------- C10 ----------------------------------- *)

\* C10: a trailing backslash is ignored: a pattern p that leaves the parser
\* in literal state, followed by one '\', has the outcome of p itself, and
\* no InvalidEscape is reported for the unfinished escape.
C10_DanglingBackslash ==
    (pc = "done" /\ EndsDangling(expr))
        => /\ result = parse(Front(expr))
           /\ result.err.kind # "InvalidEscape"

\* "a\" was parsed like "a"
C10_Witness ==
    /\ expr = <<"a", "\\">>
    /\ pc = "done"
    /\ state = "Escape"
    /\ result = Ok(AstSeq(<<Char("a")>>))

====
